---- MODULE Spec2Model ----
(***************************************************************************)
(* Model of the EmailOrchestrator (mail dispatch orchestrator): the        *)
(* account pool, the per-account daily counters, the round-robin cursor,   *)
(* the Postal relay, sendEmail with its suspension points (transport call, *)
(* log write), the daily reset and sendBulk.                               *)
(*                                                                         *)
(* The runtime is single-threaded and cooperative: everything between two  *)
(* awaits is one atomic action.  Several sendEmail calls can be suspended  *)
(* at an await at the same time.                                           *)
(***************************************************************************)
EXTENDS Integers, Sequences, FiniteSets, TLC

(* ---------------- bounds ---------------- *)

\* number of GMAIL_EMAIL_<i> indices the environment may define
MaxEnv == 2
\* number of direct callers (HTTP requests) that can be in sendEmail at once
MaxDirect == 2
\* longest list handed to sendBulk
MaxBulk == 2
\* daily limits, scaled down from 500 (Gmail) and 2000 (Google Workspace)
GmailLimit == 2
WorkspaceLimit == 3
\* the clock runs from 0 to MaxTime
MaxTime == 2
\* longest schedule (number of waves) of a campaign
MaxWaves == 2
\* number of recipient records a campaign can name
MaxRecipients == 2
\* longest template, in pieces (a piece is a text or a placeholder)
MaxTemplate == 2

(* ---------------- values ---------------- *)

NoEmail == [user |-> 0, domain |-> "none"]
Emails ==
  { [user |-> 1, domain |-> "gmail.com"],
    [user |-> 2, domain |-> "corp.com"] }

\* sentBy of a result: 0 = no result, i > 0 = accounts[i], Postal = 'postal'
Postal == -1
\* remainingToday: 'unlimited'
Unlimited == -999

BulkCaller == 0
Direct == 1..MaxDirect
\* schedule indices, and the executeCampaignSend activation of each as a caller
WaveIndex == 0..(MaxWaves - 1)
WaveCaller(i) == -(i + 1)
Waves == { WaveCaller(i) : i \in WaveIndex }
Callers == Direct \cup {BulkCaller} \cup Waves

VARIABLES
  accounts,             \* this.accounts: sequence of [email, dailyLimit, isWorkspace]
  currentAccountIndex,  \* this.currentAccountIndex (0-based)
  dailySendCounts,      \* this.dailySendCounts: email -> count
  postalEnabled,        \* this.postalEnabled
  calls,                \* one sendEmail activation per caller
  bulk,                 \* the sendBulk activation
  delivered,            \* history: email -> transport sends that succeeded since the last reset
  trace,                \* history (kept when trace.on): how the last sendEmail call
                        \* settled, and the calls the last daily reset found in flight
  clock,                \* the time, new Date()
  create,               \* the createCampaign activation
  dbCampaign,           \* the row of email_campaigns
  timers,               \* schedule index -> the setTimeout armed for it
  waves,                \* schedule index -> the executeCampaignSend activation
  render,               \* a template, a recipient record and what they are filled in to
  processEnv            \* history (kept when processEnv.on): process.env as the
                        \* constructor finds it, and whether the constructor has run

vars ==
  <<accounts, currentAccountIndex, dailySendCounts, postalEnabled, calls, bulk, delivered,
    trace, clock, create, dbCampaign, timers, waves, render, processEnv>>

campVars == <<clock, create, dbCampaign, timers, waves, render, processEnv>>

(* ---------------- construction ---------------- *)

\* email.endsWith('@gmail.com')
endsWithGmail(email) == email.domain = "gmail.com"

isWorkspace(email) == ~endsWithGmail(email)

dailyLimit(email) == IF isWorkspace(email) THEN WorkspaceLimit ELSE GmailLimit

\* the environment: index -> [email, password]; password is TRUE when
\* GMAIL_APP_PASSWORD_<i> is set.  Every address is configured at most once.
Envs ==
  { e \in [1..MaxEnv -> [email : Emails \cup {NoEmail}, password : BOOLEAN]] :
      /\ \A i \in 1..MaxEnv : e[i].email = NoEmail => ~e[i].password
      /\ \A i, j \in 1..MaxEnv :
            (i # j /\ e[i].email # NoEmail) => e[i].email # e[j].email }

RECURSIVE loadAccounts(_, _, _)
loadAccounts(env, accountIndex, acc) ==
  IF accountIndex > MaxEnv \/ env[accountIndex].email = NoEmail
  THEN acc
  ELSE IF env[accountIndex].password
       THEN loadAccounts(env, accountIndex + 1,
              Append(acc, [email |-> env[accountIndex].email,
                           dailyLimit |-> dailyLimit(env[accountIndex].email),
                           isWorkspace |-> isWorkspace(env[accountIndex].email)]))
       ELSE loadAccounts(env, accountIndex + 1, acc)

initializeAccounts(env) == loadAccounts(env, 1, <<>>)

AccountEmails(accs) == { accs[i].email : i \in 1..Len(accs) }

\* a sendEmail activation: where it is suspended, the account it selected, the
\* error it caught, the transport calls it has made, the from option it was given
IdleCall == [pc |-> "idle", account |-> 0, error |-> "none", sends |-> 0, from |-> "none"]

\* no call has settled yet
NoOutcome == [success |-> FALSE, sentBy |-> 0, remainingToday |-> 0, error |-> "none"]

\* stale: the calls that were waiting for their account's transport when the
\* last daily reset ran and still are; late: those of them whose send was
\* counted since
TraceOff == [on |-> FALSE, settled |-> FALSE, outcome |-> NoOutcome,
             logged |-> "none", stored |-> FALSE, stale |-> {}, late |-> {}]

IdleBulk ==
  [pc |-> "idle", emails |-> <<>>, delayBetween |-> 0, index |-> 0,
   results |-> <<>>, dispatched |-> <<>>, delayed |-> {}]

\* recipient records: the email field and one more field, whose name is a
\* word for the odd recipients and has a "(" in it for the even ones
Recipients ==
  { [email |-> r, field |-> IF r % 2 = 1 THEN "name" ELSE "name("] : r \in 1..MaxRecipients }

IdleCreate == [pc |-> "idle", recipients |-> <<>>, schedule |-> <<>>, at |-> 0]

NoCampaign == [exists |-> FALSE, recipients |-> <<>>, status |-> "none", sent |-> {}]

NoTimer == [state |-> "none", at |-> 0]

IdleWave ==
  [pc |-> "idle", found |-> FALSE, recipients |-> <<>>, pos |-> 0, results |-> <<>>,
   dispatched |-> <<>>, runs |-> 0, ranAt |-> 0]

\* field names of recipient records: a word, a name with a hyphen, a name
\* with an open parenthesis
Keys == {"name", "first-name", "name("}

\* the value of a field; Absent: the record does not have the field
Absent == "absent"
Values == {"", "Ana"}
Records == [Keys -> Values \cup {Absent}]

\* the pieces of a template: a text, or the placeholder {{key}}
text(str) == [kind |-> "text", str |-> str]
placeholder(key) == [kind |-> "placeholder", str |-> key]
Pieces == {text("Hi")} \cup { placeholder(key) : key \in Keys }
Templates == UNION { [1..n -> Pieces] : n \in 1..MaxTemplate }

NoRender ==
  [pc |-> "idle", template |-> <<>>, recipient |-> [key \in Keys |-> Absent],
   subject |-> <<>>, html |-> <<>>]

\* the environment is not kept
NoEnv == [on |-> FALSE, constructed |-> TRUE, gmail |-> <<>>, postal |-> FALSE]

\* no campaign has been created
campInit ==
  /\ clock = 0
  /\ create = IdleCreate
  /\ dbCampaign = NoCampaign
  /\ timers = [i \in WaveIndex |-> NoTimer]
  /\ waves = [i \in WaveIndex |-> IdleWave]

Init ==
  /\ \E env \in Envs : accounts = initializeAccounts(env)
  /\ currentAccountIndex = 0
  /\ dailySendCounts = [e \in AccountEmails(accounts) |-> 0]
  /\ postalEnabled \in BOOLEAN
  /\ calls = [c \in Callers |-> IdleCall]
  /\ bulk = IdleBulk
  /\ delivered = [e \in AccountEmails(accounts) |-> 0]
  /\ trace = TraceOff
  /\ campInit
  /\ processEnv = NoEnv
  /\ render = NoRender

(* ---------------- helpers ---------------- *)

PoolSize == Len(accounts)

\* this.dailySendCounts.get(email) || 0
sentToday(email) ==
  IF email \in DOMAIN dailySendCounts THEN dailySendCounts[email] ELSE 0

\* account.dailyLimit - (this.dailySendCounts.get(account.email) || 0)
remaining(i) == accounts[i].dailyLimit - sentToday(accounts[i].email)

\* variant: the limit test admits an account that is exactly at its limit
RECURSIVE scanAccountsAtLimit(_, _)
scanAccountsAtLimit(i, cur) ==
  IF i >= PoolSize
  THEN [account |-> 0, cursor |-> cur]
  ELSE IF sentToday(accounts[cur + 1].email) <= accounts[cur + 1].dailyLimit
       THEN [account |-> cur + 1, cursor |-> cur]
       ELSE scanAccountsAtLimit(i + 1, (cur + 1) % PoolSize)

\* variant: the scan gives up at the first account that is at its limit
scanAccountsNoWrap(i, cur) ==
  IF i >= PoolSize
  THEN [account |-> 0, cursor |-> cur]
  ELSE IF sentToday(accounts[cur + 1].email) < accounts[cur + 1].dailyLimit
       THEN [account |-> cur + 1, cursor |-> cur]
       ELSE [account |-> 0, cursor |-> (cur + 1) % PoolSize]

\* variant: a scan that finds every account at its limit puts the cursor back
\* to the first account
scanAccountsRewind(i, cur) ==
  IF \A k \in 1..PoolSize : sentToday(accounts[k].email) >= accounts[k].dailyLimit
  THEN [account |-> 0, cursor |-> 0]
  ELSE LET below(d) ==
             sentToday(accounts[((cur + d) % PoolSize) + 1].email)
               < accounts[((cur + d) % PoolSize) + 1].dailyLimit
           first == CHOOSE d \in 0..(PoolSize - 1) :
                       below(d) /\ \A d2 \in 0..(d - 1) : ~below(d2)
       IN [account |-> ((cur + first) % PoolSize) + 1, cursor |-> (cur + first) % PoolSize]

\* the for loop of getNextAccount: i iterations done, cursor at cur
RECURSIVE scanAccounts(_, _)
scanAccounts(i, cur) ==
  IF i >= PoolSize
  THEN [account |-> 0, cursor |-> cur]
  ELSE IF sentToday(accounts[cur + 1].email) < accounts[cur + 1].dailyLimit
       THEN [account |-> cur + 1, cursor |-> cur]
       ELSE scanAccounts(i + 1, (cur + 1) % PoolSize)

\* returns the chosen account (0 = null) and the cursor it leaves behind
getNextAccount ==
  IF PoolSize = 0
  THEN [account |-> 0, cursor |-> currentAccountIndex]
  ELSE scanAccounts(0, currentAccountIndex)

InFlight(c) == calls[c].pc # "idle"

OthersInFlight(c) == Cardinality({ d \in Callers \ {c} : InFlight(d) })

(* ---------------- sendBulk: the loop ---------------- *)

\* the requests handed to sendBulk; a request is its usePostal flag, and the
\* bulk requests of the model leave the flag at its default
BulkFlags == {FALSE}
BulkInputs == UNION { [1..n -> BulkFlags] : n \in 0..MaxBulk }

\* results.push({ ...result, index }) and results.push({ success: false, index, error })
bulkOutcome(outcome, index) ==
  IF outcome.success
  THEN [success |-> TRUE, index |-> index, error |-> "none"]
  ELSE [success |-> FALSE, index |-> index, error |-> outcome.error]

\* index < emails.length - 1 && delayBetween > 0
bulkDelays(b) == b.index < Len(b.emails) - 1 /\ b.delayBetween > 0

(* ---------------- sendEmail ---------------- *)

\* variant: no fallback to Postal when the accounts are maxed out
sendEmailEnterNoFallback(c, options) ==
  /\ IF options.usePostal /\ postalEnabled
     THEN /\ calls' = [calls EXCEPT ![c] = [IdleCall EXCEPT !.pc = "postalSend", !.sends = 1, !.from = options.from]]
          /\ UNCHANGED currentAccountIndex
     ELSE LET next == getNextAccount IN
          /\ currentAccountIndex' = next.cursor
          /\ IF next.account = 0
             THEN calls' = [calls EXCEPT ![c] =
                         [IdleCall EXCEPT !.pc = "logFailed", !.error = "AllLimits",
                                          !.from = options.from]]
             ELSE calls' = [calls EXCEPT ![c] =
                    [IdleCall EXCEPT !.pc = "acctSend", !.account = next.account,
                                     !.sends = 1, !.from = options.from]]
  /\ UNCHANGED <<accounts, dailySendCounts, postalEnabled, delivered>>

\* the synchronous part of sendEmail, up to its first await
sendEmailEnter(c, options) ==
  /\ IF options.usePostal /\ postalEnabled
     THEN /\ calls' = [calls EXCEPT ![c] = [IdleCall EXCEPT !.pc = "postalSend", !.sends = 1, !.from = options.from]]
          /\ UNCHANGED currentAccountIndex
     ELSE LET next == getNextAccount IN
          /\ currentAccountIndex' = next.cursor
          /\ IF next.account = 0
             THEN IF postalEnabled
                  THEN calls' = [calls EXCEPT ![c] = [IdleCall EXCEPT !.pc = "postalSend", !.sends = 1, !.from = options.from]]
                  ELSE calls' = [calls EXCEPT ![c] =
                         [IdleCall EXCEPT !.pc = "logFailed", !.error = "AllLimits",
                                          !.from = options.from]]
             ELSE calls' = [calls EXCEPT ![c] =
                    [IdleCall EXCEPT !.pc = "acctSend", !.account = next.account,
                                     !.sends = 1, !.from = options.from]]
  /\ UNCHANGED <<accounts, dailySendCounts, postalEnabled, delivered>>

\* variant: the loop goes two requests ahead
bulkIterateSkip(b, lim) ==
  IF b.index + 2 < Len(b.emails)
  THEN /\ OthersInFlight(BulkCaller) < lim
       /\ sendEmailEnter(BulkCaller, [usePostal |-> b.emails[b.index + 3], from |-> "none"])
       /\ bulk' = [b EXCEPT !.index = b.index + 2, !.pc = "awaitSend"]
  ELSE /\ bulk' = [b EXCEPT !.index = b.index + 1, !.pc = "done"]
       /\ calls' = [calls EXCEPT ![BulkCaller] = IdleCall]
       /\ UNCHANGED <<accounts, currentAccountIndex, dailySendCounts, postalEnabled, delivered>>

\* the for loop of sendBulk moves on from record b: call sendEmail for the next
\* request (up to its first await), or return the results
bulkIterate(b, lim) ==
  IF b.index + 1 < Len(b.emails)
  THEN /\ OthersInFlight(BulkCaller) < lim
       /\ sendEmailEnter(BulkCaller, [usePostal |-> b.emails[b.index + 2], from |-> "none"])
       /\ bulk' = [b EXCEPT !.index = b.index + 1, !.pc = "awaitSend"]
  ELSE /\ bulk' = [b EXCEPT !.index = b.index + 1, !.pc = "done"]
       /\ calls' = [calls EXCEPT ![BulkCaller] = IdleCall]
       /\ UNCHANGED <<accounts, currentAccountIndex, dailySendCounts, postalEnabled, delivered>>

\* variant: the loop ends at the first request that fails
bulkCollectStopOnError(outcome, lim) ==
  LET b == [bulk EXCEPT !.results = Append(@, bulkOutcome(outcome, bulk.index)),
                        !.dispatched = Append(@, outcome.success)]
  IN IF outcome.success /\ bulkDelays(b)
     THEN /\ bulk' = [b EXCEPT !.pc = "delay"]
          /\ calls' = [calls EXCEPT ![BulkCaller] = IdleCall]
          /\ UNCHANGED <<accounts, currentAccountIndex, dailySendCounts,
                         postalEnabled, delivered>>
     ELSE IF outcome.success
          THEN bulkIterate(b, lim)
          ELSE /\ bulk' = [b EXCEPT !.index = b.index + 1, !.pc = "done"]
               /\ calls' = [calls EXCEPT ![BulkCaller] = IdleCall]
               /\ UNCHANGED <<accounts, currentAccountIndex, dailySendCounts,
                              postalEnabled, delivered>>

\* await this.sendEmail(email) settled in sendBulk: push the outcome, then
\* start the delay or move on
bulkCollect(outcome, lim) ==
  LET b == [bulk EXCEPT !.results = Append(@, bulkOutcome(outcome, bulk.index)),
                        !.dispatched = Append(@, outcome.success)]
  IN IF outcome.success /\ bulkDelays(b)
     THEN /\ bulk' = [b EXCEPT !.pc = "delay"]
          /\ calls' = [calls EXCEPT ![BulkCaller] = IdleCall]
          /\ UNCHANGED <<accounts, currentAccountIndex, dailySendCounts,
                         postalEnabled, delivered>>
     ELSE bulkIterate(b, lim)

(* ---------------- executeCampaignSend: the loop ---------------- *)

\* the schedule index of a wave caller
waveOf(c) == (0 - c) - 1

\* results.push({ email, success: true }) and
\* results.push({ email, success: false, error: error.message })
waveOutcome(recipient, outcome) ==
  [email |-> recipient.email, success |-> outcome.success, error |-> outcome.error]

\* new RegExp(`{{${key}}}`, 'g') throws a SyntaxError for a key that makes the
\* pattern ill-formed, such as one that opens a group
regExpThrows(key) == key = "name("

\* the for loop of executeCampaignSend(id, i) moves on in record w: fill in the
\* template for the next recipient, which is outside the try block, and call
\* sendEmail (up to its first await), or issue the update
waveIterate(i, w, lim) ==
  IF w.pos < Len(w.recipients)
  THEN IF regExpThrows(w.recipients[w.pos + 1].field)
       THEN /\ waves' = [waves EXCEPT ![i] = [w EXCEPT !.pc = "threw"]]
            /\ calls' = [calls EXCEPT ![WaveCaller(i)] = IdleCall]
            /\ UNCHANGED <<accounts, currentAccountIndex, dailySendCounts, postalEnabled,
                           delivered, clock, create, dbCampaign, timers, render, processEnv>>
       ELSE /\ OthersInFlight(WaveCaller(i)) < lim
            /\ sendEmailEnter(WaveCaller(i), [usePostal |-> FALSE, from |-> "none"])
            /\ waves' = [waves EXCEPT ![i] =
                           [w EXCEPT !.pc = "send",
                                     !.dispatched = Append(@, w.recipients[w.pos + 1].email)]]
            /\ UNCHANGED <<clock, create, dbCampaign, timers, render, processEnv>>
  ELSE /\ waves' = [waves EXCEPT ![i] = [w EXCEPT !.pc = "update"]]
       /\ calls' = [calls EXCEPT ![WaveCaller(i)] = IdleCall]
       /\ UNCHANGED <<accounts, currentAccountIndex, dailySendCounts, postalEnabled,
                      delivered, clock, create, dbCampaign, timers, render, processEnv>>

\* await this.sendEmail(...) settled in executeCampaignSend: push the outcome
\* and go on with the next recipient
waveCollect(i, outcome, lim) ==
  LET w == waves[i]
      pushed == [w EXCEPT !.results = Append(@, waveOutcome(w.recipients[w.pos + 1], outcome))]
  IN waveIterate(i, [pushed EXCEPT !.pos = w.pos + 1], lim)

\* sendEmail settles with outcome: the caller's continuation runs
settle(c, outcome, lim) ==
  IF c = BulkCaller
  THEN bulkCollect(outcome, lim) /\ UNCHANGED campVars
  ELSE IF c \in Waves
       THEN waveCollect(waveOf(c), outcome, lim) /\ UNCHANGED bulk
       ELSE /\ calls' = [calls EXCEPT ![c] = IdleCall]
            /\ UNCHANGED <<accounts, currentAccountIndex, dailySendCounts,
                           postalEnabled, bulk, delivered, campVars>>

\* variant: remainingToday computed from the count read before the increment
accountResultBeforeIncrement(i) ==
  [success |-> TRUE, sentBy |-> i, remainingToday |-> remaining(i) + 1, error |-> "none"]

\* what sendEmail returns for a message sent through accounts[i]
accountResult(i) ==
  [success |-> TRUE, sentBy |-> i, remainingToday |-> remaining(i), error |-> "none"]

\* what sendViaPostal returns
postalResult ==
  [success |-> TRUE, sentBy |-> Postal, remainingToday |-> Unlimited, error |-> "none"]

thrown(error) ==
  [success |-> FALSE, sentBy |-> 0, remainingToday |-> 0, error |-> error]

\* history: the transport call of caller c has settled, and was counted or not
resolved(c, counted) ==
  trace' = IF trace.on /\ c \in trace.stale
           THEN [trace EXCEPT !.stale = @ \ {c},
                              !.late = IF counted
                                       THEN @ \cup {[caller |-> c, account |-> calls[c].account]}
                                       ELSE @]
           ELSE trace

\* variant: the cursor stays on the account that just sent
AcctSendOkNoAdvance(c) ==
  /\ calls[c].pc = "acctSend"
  /\ LET email == accounts[calls[c].account].email
         currentCount == sentToday(email)
     IN /\ dailySendCounts' = [dailySendCounts EXCEPT ![email] = currentCount + 1]
        /\ delivered' = [delivered EXCEPT ![email] = @ + 1]
  /\ calls' = [calls EXCEPT ![c].pc = "logSent"]
  /\ resolved(c, TRUE)
  /\ UNCHANGED <<accounts, currentAccountIndex, postalEnabled, bulk, campVars>>

\* variant: a send is counted only while the account is below its limit
AcctSendOkClamped(c) ==
  /\ calls[c].pc = "acctSend"
  /\ LET email == accounts[calls[c].account].email
         currentCount == sentToday(email)
     IN /\ dailySendCounts' =
             [dailySendCounts EXCEPT ![email] =
                IF currentCount < accounts[calls[c].account].dailyLimit
                THEN currentCount + 1 ELSE currentCount]
        /\ delivered' = [delivered EXCEPT ![email] = @ + 1]
  /\ currentAccountIndex' = (currentAccountIndex + 1) % PoolSize
  /\ calls' = [calls EXCEPT ![c].pc = "logSent"]
  /\ resolved(c, TRUE)
  /\ UNCHANGED <<accounts, postalEnabled, bulk, campVars>>

\* variant: the cursor is advanced without the modulo
AcctSendOkNoModulo(c) ==
  /\ calls[c].pc = "acctSend"
  /\ LET email == accounts[calls[c].account].email
         currentCount == sentToday(email)
     IN /\ dailySendCounts' = [dailySendCounts EXCEPT ![email] = currentCount + 1]
        /\ delivered' = [delivered EXCEPT ![email] = @ + 1]
  /\ currentAccountIndex' = currentAccountIndex + 1
  /\ calls' = [calls EXCEPT ![c].pc = "logSent"]
  /\ resolved(c, TRUE)
  /\ UNCHANGED <<accounts, postalEnabled, bulk, campVars>>

\* account.transporter.sendMail resolved: count, advance the cursor, start the log write
AcctSendOk(c) ==
  /\ calls[c].pc = "acctSend"
  /\ LET email == accounts[calls[c].account].email
         currentCount == sentToday(email)
     IN /\ dailySendCounts' = [dailySendCounts EXCEPT ![email] = currentCount + 1]
        /\ delivered' = [delivered EXCEPT ![email] = @ + 1]
  /\ currentAccountIndex' = (currentAccountIndex + 1) % PoolSize
  /\ calls' = [calls EXCEPT ![c].pc = "logSent"]
  /\ resolved(c, TRUE)
  /\ UNCHANGED <<accounts, postalEnabled, bulk, campVars>>

\* variant: a rejected account send is retried through Postal when it is enabled
AcctSendFailRetryPostal(c) ==
  /\ calls[c].pc = "acctSend"
  /\ IF postalEnabled
     THEN calls' = [calls EXCEPT ![c].pc = "postalSend", ![c].account = 0,
                                 ![c].sends = calls[c].sends + 1]
     ELSE calls' = [calls EXCEPT ![c].pc = "logFailed", ![c].error = "transport"]
  /\ resolved(c, FALSE)
  /\ UNCHANGED <<accounts, currentAccountIndex, dailySendCounts, postalEnabled, bulk,
                 delivered, campVars>>

\* variant: a rejected account send is counted like a send that succeeded
AcctSendFailCounted(c) ==
  /\ calls[c].pc = "acctSend"
  /\ calls' = [calls EXCEPT ![c].pc = "logFailed", ![c].error = "transport"]
  /\ dailySendCounts' =
       [dailySendCounts EXCEPT ![accounts[calls[c].account].email] =
          sentToday(accounts[calls[c].account].email) + 1]
  /\ resolved(c, FALSE)
  /\ UNCHANGED <<accounts, currentAccountIndex, postalEnabled, bulk, delivered, campVars>>

\* account.transporter.sendMail rejected: the catch block starts the failure log
AcctSendFail(c) ==
  /\ calls[c].pc = "acctSend"
  /\ calls' = [calls EXCEPT ![c].pc = "logFailed", ![c].error = "transport"]
  /\ resolved(c, FALSE)
  /\ UNCHANGED <<accounts, currentAccountIndex, dailySendCounts, postalEnabled, bulk,
                 delivered, campVars>>

\* variant: logEmail without its try/catch, a failed insert rejects
logEmailNoCatch(logOk) == IF logOk THEN "returned" ELSE "threw"

\* logEmail(emailData): the insert into email_logs succeeds (logOk) or fails;
\* the catch block swallows the failure, so the call returns either way
logEmail(logOk) == "returned"

\* history: the call settles with outcome after handing a log row of status
\* logged ("none": no row) to logEmail, whose insert succeeded or not (stored)
record(outcome, logged, stored) ==
  trace' = IF trace.on
           THEN [trace EXCEPT !.settled = TRUE, !.outcome = outcome,
                              !.logged = logged, !.stored = stored]
           ELSE trace

\* what the call settles with once the log write of a sent message finished
sentOutcome(c, logOk) ==
  IF logEmail(logOk) = "returned" THEN accountResult(calls[c].account) ELSE thrown("log")

\* what the call settles with once the log write of a failure finished
failedOutcome(c, logOk) ==
  IF logEmail(logOk) = "returned" THEN thrown(calls[c].error) ELSE thrown("log")

\* what sendViaPostal settles with once its log write finished
postalOutcome(logOk) ==
  IF logEmail(logOk) = "returned" THEN postalResult ELSE thrown("log")

\* logEmail of a sent message finished: return the result
LogSentDone(c, logOk, lim) ==
  /\ calls[c].pc = "logSent"
  /\ settle(c, sentOutcome(c, logOk), lim)
  /\ record(sentOutcome(c, logOk), "sent", logOk)

\* logEmail of a failure finished: rethrow the error
LogFailedDone(c, logOk, lim) ==
  /\ calls[c].pc = "logFailed"
  /\ settle(c, failedOutcome(c, logOk), lim)
  /\ record(failedOutcome(c, logOk), "failed", logOk)

(* ---------------- sendViaPostal ---------------- *)

\* variant: a Postal send takes a turn of the rotation
PostalSendOkAdvance(c) ==
  /\ calls[c].pc = "postalSend"
  /\ calls' = [calls EXCEPT ![c].pc = "postalLog"]
  /\ currentAccountIndex' = IF PoolSize = 0 THEN 0 ELSE (currentAccountIndex + 1) % PoolSize
  /\ UNCHANGED <<accounts, dailySendCounts, postalEnabled, bulk, delivered, trace, campVars>>

\* postalTransporter.sendMail resolved: start the log write
PostalSendOk(c) ==
  /\ calls[c].pc = "postalSend"
  /\ calls' = [calls EXCEPT ![c].pc = "postalLog"]
  /\ UNCHANGED <<accounts, currentAccountIndex, dailySendCounts, postalEnabled, bulk,
                 delivered, trace, campVars>>

\* postalTransporter.sendMail rejected: the rejection of the returned promise
\* bypasses sendEmail's catch block
PostalSendFail(c, lim) ==
  /\ calls[c].pc = "postalSend"
  /\ settle(c, thrown("postal"), lim)
  /\ record(thrown("postal"), "none", FALSE)

\* logEmail of a message sent through Postal finished: return the result
PostalLogDone(c, logOk, lim) ==
  /\ calls[c].pc = "postalLog"
  /\ settle(c, postalOutcome(logOk), lim)
  /\ record(postalOutcome(logOk), "sent", logOk)

(* ---------------- daily reset ---------------- *)

\* variant: only the accounts that reached their limit are reset
resetCountsOnlyMaxed(counts) ==
  [e \in AccountEmails(accounts) |-> IF counts[e] >= dailyLimit(e) THEN 0 ELSE counts[e]]

\* this.dailySendCounts.clear(); accounts.forEach(a => dailySendCounts.set(a.email, 0))
resetCounts(counts) == [e \in AccountEmails(accounts) |-> 0]

\* history: the calls a daily reset finds waiting for their account's transport
foundInFlight ==
  trace' = IF trace.on
           THEN [trace EXCEPT !.stale = { c \in Callers : calls[c].pc = "acctSend" },
                              !.late = {}]
           ELSE trace

\* the cron callback
DailyReset ==
  /\ dailySendCounts' = resetCounts(dailySendCounts)
  /\ delivered' = [e \in DOMAIN delivered |-> 0]
  /\ foundInFlight
  /\ UNCHANGED <<accounts, currentAccountIndex, postalEnabled, calls, bulk, campVars>>

(* ---------------- callers ---------------- *)

\* a caller outside the orchestrator invokes sendEmail; at most lim activations
\* are suspended at the same time
DirectSend(c, usePostal, lim) ==
  /\ ~InFlight(c)
  /\ OthersInFlight(c) < lim
  /\ sendEmailEnter(c, [usePostal |-> usePostal, from |-> "none"])
  /\ UNCHANGED <<bulk, trace, campVars>>

\* sendBulk(emails, delayBetween) is called: runs up to the first await
BulkStart(emails, delayBetween, lim) ==
  /\ bulk.pc \in {"idle", "done"}
  /\ bulkIterate([IdleBulk EXCEPT !.emails = emails, !.delayBetween = delayBetween,
                                  !.index = -1], lim)
  /\ UNCHANGED <<trace, campVars>>

\* the setTimeout(resolve, delayBetween) of sendBulk fired
BulkDelayElapsed(lim) ==
  /\ bulk.pc = "delay"
  /\ bulkIterate([bulk EXCEPT !.delayed = @ \cup {bulk.index}], lim)
  /\ UNCHANGED <<trace, campVars>>

\* variant: the client send asks for the relay
sendAsClientOptionsViaPostal == [usePostal |-> TRUE, from |-> "client"]

\* the options sendAsClient hands to sendEmail: from, replyTo and headers name
\* the client, usePostal is left out
sendAsClientOptions == [usePostal |-> FALSE, from |-> "client"]

\* a caller outside the orchestrator invokes sendAsClient
ClientSend(c, lim) ==
  /\ ~InFlight(c)
  /\ OthersInFlight(c) < lim
  /\ sendEmailEnter(c, sendAsClientOptions)
  /\ UNCHANGED <<bulk, trace, campVars>>

\* from of the mailOptions handed to the account's transporter:
\* from || `"Bowery Creative" <${account.email}>`
mailFrom(c) == IF calls[c].from # "none" THEN calls[c].from ELSE "account"

(* ---------------- campaigns ---------------- *)

Schedules == UNION { [1..n -> [sendAt : 0..MaxTime]] : n \in 0..MaxWaves }

\* lists of recipient records, no record twice
RecipientLists ==
  UNION { { r \in [1..n -> Recipients] : \A j, k \in 1..n : j # k => r[j] # r[k] } :
          n \in 0..MaxRecipients }

\* the columns of the table email_campaigns
CampaignColumns ==
  {"id", "name", "recipients", "subject", "html_template", "schedule", "status",
   "created_at", "updated_at"}

\* the keys of the update of executeCampaignSend:
\* `send_${scheduleIndex}_completed` and `send_${scheduleIndex}_results`
sendColumns(scheduleIndex) ==
  { "send_" \o ToString(scheduleIndex) \o "_completed",
    "send_" \o ToString(scheduleIndex) \o "_results" }

\* .update(...).eq('id', id): the row changes when it exists and the table has
\* every column of the update; otherwise the store answers with an error
\* object, which the caller does not look at
updateCampaign(row, columns, changed) ==
  IF row.exists /\ columns \subseteq CampaignColumns THEN changed ELSE row

\* createCampaign(name, recipients, subject, htmlTemplate, schedule) is called:
\* the insert is issued
CreateCampaign(recipients, schedule) ==
  /\ create.pc = "idle"
  /\ create' = [pc |-> "insert", recipients |-> recipients, schedule |-> schedule, at |-> 0]
  /\ UNCHANGED <<accounts, currentAccountIndex, dailySendCounts, postalEnabled, calls, bulk,
                 delivered, trace, clock, dbCampaign, timers, waves, render, processEnv>>

\* the longest delay of a timer, 2^31 - 1 ms, on the scale of the clock
TIMEOUT_MAX == 1

\* setTimeout(callback, delay): a delay that is not between 1 and TIMEOUT_MAX
\* is set to 1
setTimeoutDelay(delay) == IF delay >= 1 /\ delay <= TIMEOUT_MAX THEN delay ELSE 1

\* if (sendTime > now)
arms(sendTime, now) == sendTime > now

\* variant: the waves are scheduled before the error of the insert is looked at
InsertDoneArmsFirst(ok) ==
  /\ create.pc = "insert"
  /\ timers' = [i \in WaveIndex |->
                  IF i < Len(create.schedule) /\ arms(create.schedule[i + 1].sendAt, clock)
                  THEN [state |-> "armed",
                        at |-> clock + setTimeoutDelay(create.schedule[i + 1].sendAt - clock)]
                  ELSE NoTimer]
  /\ IF ok
     THEN /\ dbCampaign' = [exists |-> TRUE, recipients |-> create.recipients,
                            status |-> "scheduled", sent |-> {}]
          /\ create' = [create EXCEPT !.pc = "done", !.at = clock]
     ELSE /\ create' = [create EXCEPT !.pc = "failed", !.at = clock]
          /\ UNCHANGED dbCampaign
  /\ UNCHANGED <<accounts, currentAccountIndex, dailySendCounts, postalEnabled, calls, bulk,
                 delivered, trace, clock, waves, render, processEnv>>

\* the insert settled: throw its error, or arm a timer for every wave of the
\* schedule that lies in the future and return the campaign
InsertDone(ok) ==
  /\ create.pc = "insert"
  /\ IF ok
     THEN /\ dbCampaign' = [exists |-> TRUE, recipients |-> create.recipients,
                            status |-> "scheduled", sent |-> {}]
          /\ timers' = [i \in WaveIndex |->
                          IF i < Len(create.schedule)
                             /\ arms(create.schedule[i + 1].sendAt, clock)
                          THEN [state |-> "armed",
                                at |-> clock + setTimeoutDelay(create.schedule[i + 1].sendAt
                                                                 - clock)]
                          ELSE NoTimer]
          /\ create' = [create EXCEPT !.pc = "done", !.at = clock]
     ELSE /\ create' = [create EXCEPT !.pc = "failed", !.at = clock]
          /\ UNCHANGED <<dbCampaign, timers>>
  /\ UNCHANGED <<accounts, currentAccountIndex, dailySendCounts, postalEnabled, calls, bulk,
                 delivered, trace, clock, waves, render, processEnv>>

\* the timer of wave i fires, not before its delay has passed:
\* executeCampaignSend(campaign.id, i) issues its select
TimerFire(i) ==
  /\ timers[i].state = "armed"
  /\ clock >= timers[i].at
  /\ timers' = [timers EXCEPT ![i].state = "fired"]
  /\ waves' = [waves EXCEPT ![i] =
                 [IdleWave EXCEPT !.pc = "read", !.runs = waves[i].runs + 1, !.ranAt = clock]]
  /\ UNCHANGED <<accounts, currentAccountIndex, dailySendCounts, postalEnabled, calls, bulk,
                 delivered, trace, clock, create, dbCampaign, render, processEnv>>

\* the select settled: return when there is no campaign (no row, or the read
\* failed), otherwise start the loop over the recipients that were read
WaveRead(i, readOk, lim) ==
  /\ waves[i].pc = "read"
  /\ IF dbCampaign.exists /\ readOk
     THEN waveIterate(i, [waves[i] EXCEPT !.found = TRUE,
                                          !.recipients = dbCampaign.recipients], lim)
     ELSE /\ waves' = [waves EXCEPT ![i].pc = "done"]
          /\ UNCHANGED <<accounts, currentAccountIndex, dailySendCounts, postalEnabled, calls,
                         delivered, clock, create, dbCampaign, timers, render, processEnv>>
  /\ UNCHANGED <<bulk, trace>>

\* the update of executeCampaignSend settled
WaveUpdateDone(i) ==
  /\ waves[i].pc = "update"
  /\ dbCampaign' = updateCampaign(dbCampaign, sendColumns(i),
                      [dbCampaign EXCEPT !.sent =
                          @ \cup {[index |-> i, results |-> waves[i].results]}])
  /\ waves' = [waves EXCEPT ![i].pc = "done"]
  /\ UNCHANGED <<accounts, currentAccountIndex, dailySendCounts, postalEnabled, calls, bulk,
                 delivered, trace, clock, create, timers, render, processEnv>>

\* somebody else takes the first recipient off the stored campaign
EditCampaign ==
  /\ dbCampaign.exists
  /\ dbCampaign.recipients # <<>>
  /\ dbCampaign' = [dbCampaign EXCEPT !.recipients = Tail(@)]
  /\ UNCHANGED <<accounts, currentAccountIndex, dailySendCounts, postalEnabled, calls, bulk,
                 delivered, trace, clock, create, timers, waves, render, processEnv>>

\* time passes
Tick ==
  /\ clock < MaxTime
  /\ clock' = clock + 1
  /\ UNCHANGED <<accounts, currentAccountIndex, dailySendCounts, postalEnabled, calls, bulk,
                 delivered, trace, create, dbCampaign, timers, waves, render, processEnv>>

(* ---------------- filling in the templates ---------------- *)

\* key matches \w+
isWord(key) == key = "name"

\* campaign.subject.replace(/{{(\w+)}}/g, (match, key) => recipient[key] || match)
renderSubject(template, recipient) ==
  [k \in DOMAIN template |->
     IF /\ template[k].kind = "placeholder"
        /\ isWord(template[k].str)
        /\ recipient[template[k].str] # Absent
        /\ recipient[template[k].str] # ""
     THEN text(recipient[template[k].str])
     ELSE template[k]]

\* Object.keys(recipient).forEach(key =>
\*   html = html.replace(new RegExp(`{{${key}}}`, 'g'), recipient[key]))
renderBody(template, recipient) ==
  IF \E key \in Keys : recipient[key] # Absent /\ regExpThrows(key)
  THEN <<text("SyntaxError")>>
  ELSE [k \in DOMAIN template |->
          IF template[k].kind = "placeholder" /\ recipient[template[k].str] # Absent
          THEN text(recipient[template[k].str])
          ELSE template[k]]

\* the subject and the body of a campaign are filled in for a recipient
Render ==
  /\ render.pc = "ready"
  /\ render' = [render EXCEPT !.pc = "done",
                              !.subject = renderSubject(render.template, render.recipient),
                              !.html = renderBody(render.template, render.recipient)]
  /\ UNCHANGED <<accounts, currentAccountIndex, dailySendCounts, postalEnabled, calls, bulk,
                 delivered, trace, clock, create, dbCampaign, timers, waves, processEnv>>

(* ---------------- getStats ---------------- *)

\* Array.from(this.dailySendCounts.values()).reduce((a, b) => a + b, 0)
RECURSIVE sumValues(_, _)
sumValues(counts, keys) ==
  IF keys = {}
  THEN 0
  ELSE LET k == CHOOSE e \in keys : TRUE
       IN counts[k] + sumValues(counts, keys \ {k})

\* this.accounts.reduce((sum, acc) => sum + acc.dailyLimit, 0), first i accounts
RECURSIVE sumLimits(_)
sumLimits(i) == IF i = 0 THEN 0 ELSE sumLimits(i - 1) + accounts[i].dailyLimit

\* variant: the capacity is the sum of the limits even when Postal is enabled
getStatsNoUnlimited ==
  [accounts |-> [i \in 1..PoolSize |->
                   [email |-> accounts[i].email,
                    sentToday |-> sentToday(accounts[i].email),
                    remainingToday |-> accounts[i].dailyLimit - sentToday(accounts[i].email),
                    dailyLimit |-> accounts[i].dailyLimit]],
   postalEnabled |-> postalEnabled,
   totalSentToday |-> sumValues(dailySendCounts, DOMAIN dailySendCounts),
   totalDailyCapacity |-> sumLimits(PoolSize)]

\* the stats object getStats returns
getStats ==
  [accounts |-> [i \in 1..PoolSize |->
                   [email |-> accounts[i].email,
                    sentToday |-> sentToday(accounts[i].email),
                    remainingToday |-> accounts[i].dailyLimit - sentToday(accounts[i].email),
                    dailyLimit |-> accounts[i].dailyLimit]],
   postalEnabled |-> postalEnabled,
   totalSentToday |-> sumValues(dailySendCounts, DOMAIN dailySendCounts),
   totalDailyCapacity |-> IF postalEnabled THEN Unlimited ELSE sumLimits(PoolSize)]

\* getStats is called: it only reads
GetStats ==
  /\ getStats.postalEnabled = postalEnabled
  /\ UNCHANGED vars

(* ---------------- specifications ---------------- *)

\* every caller may be suspended in sendEmail at the same time
AllCallers == MaxDirect + 1

Next ==
  \/ \E c \in Direct, usePostal \in BOOLEAN : DirectSend(c, usePostal, AllCallers)
  \/ \E c \in Callers : AcctSendOk(c)
  \/ \E c \in Callers : AcctSendFail(c)
  \/ \E c \in Callers, logOk \in BOOLEAN : LogSentDone(c, logOk, AllCallers)
  \/ \E c \in Callers, logOk \in BOOLEAN : LogFailedDone(c, logOk, AllCallers)
  \/ \E c \in Callers : PostalSendOk(c)
  \/ \E c \in Callers : PostalSendFail(c, AllCallers)
  \/ \E c \in Callers, logOk \in BOOLEAN : PostalLogDone(c, logOk, AllCallers)
  \/ DailyReset
  \/ \E emails \in BulkInputs, delayBetween \in {0, 1} : BulkStart(emails, delayBetween, AllCallers)
  \/ BulkDelayElapsed(AllCallers)

Spec == Init /\ [][Next]_vars

\* dispatch calls run one after another: a call starts only when none is suspended
SeqNext ==
  \/ \E c \in Direct, usePostal \in BOOLEAN : DirectSend(c, usePostal, 1)
  \/ \E c \in Callers : AcctSendOk(c)
  \/ \E c \in Callers : AcctSendFail(c)
  \/ \E c \in Callers, logOk \in BOOLEAN : LogSentDone(c, logOk, 1)
  \/ \E c \in Callers, logOk \in BOOLEAN : LogFailedDone(c, logOk, 1)
  \/ \E c \in Callers : PostalSendOk(c)
  \/ \E c \in Callers : PostalSendFail(c, 1)
  \/ \E c \in Callers, logOk \in BOOLEAN : PostalLogDone(c, logOk, 1)
  \/ DailyReset
  \/ \E emails \in BulkInputs, delayBetween \in {0, 1} : BulkStart(emails, delayBetween, 1)
  \/ BulkDelayElapsed(1)

SeqSpec == Init /\ [][SeqNext]_vars

\* concurrent calls, no daily reset during the run
NoResetNext ==
  \/ \E c \in Direct, usePostal \in BOOLEAN : DirectSend(c, usePostal, AllCallers)
  \/ \E c \in Callers : AcctSendOk(c)
  \/ \E c \in Callers : AcctSendFail(c)
  \/ \E c \in Callers, logOk \in BOOLEAN : LogSentDone(c, logOk, AllCallers)
  \/ \E c \in Callers, logOk \in BOOLEAN : LogFailedDone(c, logOk, AllCallers)
  \/ \E c \in Callers : PostalSendOk(c)
  \/ \E c \in Callers : PostalSendFail(c, AllCallers)
  \/ \E c \in Callers, logOk \in BOOLEAN : PostalLogDone(c, logOk, AllCallers)
  \/ \E emails \in BulkInputs, delayBetween \in {0, 1} : BulkStart(emails, delayBetween, AllCallers)
  \/ BulkDelayElapsed(AllCallers)

NoResetSpec == Init /\ [][NoResetNext]_vars

\* calls one after another, by direct callers through sendEmail and
\* sendAsClient, with the history of how each call settled
TraceOn == [TraceOff EXCEPT !.on = TRUE]

ObsInit ==
  /\ \E env \in Envs : accounts = initializeAccounts(env)
  /\ currentAccountIndex = 0
  /\ dailySendCounts = [e \in AccountEmails(accounts) |-> 0]
  /\ postalEnabled \in BOOLEAN
  /\ calls = [c \in Callers |-> IdleCall]
  /\ bulk = IdleBulk
  /\ delivered = [e \in AccountEmails(accounts) |-> 0]
  /\ trace = TraceOn
  /\ campInit
  /\ processEnv = NoEnv
  /\ render = NoRender

ObsNext ==
  \/ \E c \in Direct, usePostal \in BOOLEAN : DirectSend(c, usePostal, 1)
  \/ \E c \in Direct : ClientSend(c, 1)
  \/ \E c \in Direct : AcctSendOk(c)
  \/ \E c \in Direct : AcctSendFail(c)
  \/ \E c \in Direct, logOk \in BOOLEAN : LogSentDone(c, logOk, 1)
  \/ \E c \in Direct, logOk \in BOOLEAN : LogFailedDone(c, logOk, 1)
  \/ \E c \in Direct : PostalSendOk(c)
  \/ \E c \in Direct : PostalSendFail(c, 1)
  \/ \E c \in Direct, logOk \in BOOLEAN : PostalLogDone(c, logOk, 1)
  \/ DailyReset
  \/ GetStats

ObsSpec == ObsInit /\ [][ObsNext]_vars

\* direct callers in flight together while the daily reset runs, with the
\* history of the calls each reset found in flight
RaceNext ==
  \/ \E c \in Direct, usePostal \in BOOLEAN : DirectSend(c, usePostal, AllCallers)
  \/ \E c \in Direct : AcctSendOk(c)
  \/ \E c \in Direct : AcctSendFail(c)
  \/ \E c \in Direct, logOk \in BOOLEAN : LogSentDone(c, logOk, AllCallers)
  \/ \E c \in Direct, logOk \in BOOLEAN : LogFailedDone(c, logOk, AllCallers)
  \/ \E c \in Direct : PostalSendOk(c)
  \/ \E c \in Direct : PostalSendFail(c, AllCallers)
  \/ \E c \in Direct, logOk \in BOOLEAN : PostalLogDone(c, logOk, AllCallers)
  \/ DailyReset

RaceSpec == ObsInit /\ [][RaceNext]_vars

\* one campaign: its creation, its timers and its waves; a wave sends to its
\* next recipient only while no other sendEmail call is suspended
CampaignNext ==
  \/ \E recipients \in RecipientLists, schedule \in Schedules :
        CreateCampaign(recipients, schedule)
  \/ \E ok \in BOOLEAN : InsertDone(ok)
  \/ \E i \in WaveIndex : TimerFire(i)
  \/ \E i \in WaveIndex, readOk \in BOOLEAN : WaveRead(i, readOk, 1)
  \/ \E i \in WaveIndex : WaveUpdateDone(i)
  \/ EditCampaign
  \/ Tick
  \/ \E c \in Waves : AcctSendOk(c)
  \/ \E c \in Waves : AcctSendFail(c)
  \/ \E c \in Waves, logOk \in BOOLEAN : LogSentDone(c, logOk, 1)
  \/ \E c \in Waves, logOk \in BOOLEAN : LogFailedDone(c, logOk, 1)
  \/ \E c \in Waves : PostalSendOk(c)
  \/ \E c \in Waves : PostalSendFail(c, 1)
  \/ \E c \in Waves, logOk \in BOOLEAN : PostalLogDone(c, logOk, 1)

CampaignSpec == Init /\ [][CampaignNext]_vars

\* filling in templates: every template with every record
TemplateInit ==
  /\ \E env \in Envs : accounts = initializeAccounts(env)
  /\ currentAccountIndex = 0
  /\ dailySendCounts = [e \in AccountEmails(accounts) |-> 0]
  /\ postalEnabled \in BOOLEAN
  /\ calls = [c \in Callers |-> IdleCall]
  /\ bulk = IdleBulk
  /\ delivered = [e \in AccountEmails(accounts) |-> 0]
  /\ trace = TraceOff
  /\ campInit
  /\ processEnv = NoEnv
  /\ \E template \in Templates, recipient \in Records :
        render = [NoRender EXCEPT !.pc = "ready", !.template = template, !.recipient = recipient]

TemplateNext == Render

TemplateSpec == TemplateInit /\ [][TemplateNext]_vars

(* ---------------- steps, as seen from outside ---------------- *)

\* this step enters sendEmail for caller c with the given usePostal flag
Enters(c, usePostal) ==
  IF c = BulkCaller
  THEN /\ bulk'.pc = "awaitSend"
       /\ bulk.pc # "awaitSend" \/ bulk'.index # bulk.index
       /\ bulk'.emails[bulk'.index + 1] = usePostal
  ELSE DirectSend(c, usePostal, AllCallers)

Pool == 1..PoolSize

AllExhausted == \A i \in Pool : remaining(i) = 0

SomeCapacity == \E i \in Pool : remaining(i) > 0

Idle == \A c \in Callers : ~InFlight(c)

(* ---------------- C1 ---------------- *)

\* C1: when dispatch calls run one after another, every account's sentToday
\* stays between 0 and its dailyLimit, whatever the pool, the transport
\* failures and the resets.
C1_QuotaRespected ==
  \A i \in Pool :
    /\ 0 <= sentToday(accounts[i].email)
    /\ sentToday(accounts[i].email) <= accounts[i].dailyLimit

\* a two-account pool sent up to both limits, all calls settled
C1_Witness ==
  /\ PoolSize = 2
  /\ Idle
  /\ \A i \in Pool : delivered[accounts[i].email] = accounts[i].dailyLimit
  /\ \A i \in Pool : sentToday(accounts[i].email) = accounts[i].dailyLimit

(* ---------------- C2 ---------------- *)

\* C2: with several dispatch calls in flight and no reset, no account's
\* sentToday gets more than 1 above its dailyLimit.
C2_OvershootAtMostOne ==
  \A i \in Pool : sentToday(accounts[i].email) <= accounts[i].dailyLimit + 1

(* ---------------- C3 ---------------- *)

\* C3: a dispatch call entered while every account has remaining = 0 (or the
\* pool is empty) goes to the relay when the relay is configured, and
\* otherwise fails with the all-limits error without a transport call.
C3_ExhaustedEscalates ==
  [][ \A c \in Callers, usePostal \in BOOLEAN :
        (AllExhausted /\ Enters(c, usePostal)) =>
           IF postalEnabled
           THEN calls'[c].pc = "postalSend"
           ELSE calls'[c].pc = "logFailed" /\ calls'[c].error = "AllLimits" ]_vars

\* a non-empty exhausted pool, no relay, a call failing with the all-limits error
C3_Witness ==
  /\ PoolSize > 0
  /\ AllExhausted
  /\ ~postalEnabled
  /\ \E c \in Callers : calls[c].pc = "logFailed" /\ calls[c].error = "AllLimits"

(* ---------------- C4 ---------------- *)

C5_RoundRobinFair ==
  (\A i \in Pool : sentToday(accounts[i].email) < accounts[i].dailyLimit) =>
     \A i, j \in Pool :
        delivered[accounts[i].email] - delivered[accounts[j].email] <= 1

\* two accounts below their limits after three sends: 2 and 1
C5_Witness ==
  /\ PoolSize = 2
  /\ \A i \in Pool : sentToday(accounts[i].email) < accounts[i].dailyLimit
  /\ \E i, j \in Pool : delivered[accounts[i].email] = 2 /\ delivered[accounts[j].email] = 1

(* ---------------- C6 ---------------- *)

\* C6: when the transport call of an account fails while another account has
\* remaining > 0, the cursor is moved past the account that failed, so the
\* next dispatch call is not attempted on it.
C6_FailedSendAdvancesCursor ==
  [][ \A c \in Callers :
        ( /\ calls[c].pc = "acctSend"
          /\ calls'[c].pc = "logFailed"
          /\ \E j \in Pool : j # calls[c].account /\ remaining(j) > 0 )
        => currentAccountIndex' = calls[c].account % PoolSize ]_vars

(* ---------------- C7 ---------------- *)

\* C7: the remainingToday that a pool send returns is the account's dailyLimit
\* minus the sends that succeeded through it since the last reset, and is
\* never negative; with one account of limit q and no relay a dispatch call
\* is attempted on the account while fewer than q sends succeeded and fails
\* with the all-limits error after q.
C7_RemainingReturned ==
  [][ \A c \in Callers :
        /\ (calls[c].pc = "logSent" /\ calls'[c].pc # "logSent") =>
             LET a == calls[c].account
                 r == accountResult(a)
             IN /\ r.success /\ r.sentBy = a
                /\ r.remainingToday = accounts[a].dailyLimit - delivered[accounts[a].email]
                /\ r.remainingToday >= 0
        /\ \A usePostal \in BOOLEAN :
             (PoolSize = 1 /\ ~postalEnabled /\ Enters(c, usePostal)) =>
                IF delivered[accounts[1].email] < accounts[1].dailyLimit
                THEN calls'[c].pc = "acctSend"
                ELSE calls'[c].pc = "logFailed" /\ calls'[c].error = "AllLimits" ]_vars

\* one account, no relay: the limit's worth of sends returned, the next call fails
C7_Witness ==
  /\ PoolSize = 1
  /\ ~postalEnabled
  /\ delivered[accounts[1].email] = accounts[1].dailyLimit
  /\ remaining(1) = 0
  /\ \E c \in Callers : calls[c].pc = "logFailed" /\ calls[c].error = "AllLimits"

(* ---------------- C8 ---------------- *)

\* C8: after the daily reset every account has sentToday = 0 and remaining =
\* dailyLimit, whatever the counters were, and a second reset changes nothing.
C8_ResetZeroes ==
  [][ DailyReset =>
        /\ \A i \in Pool :
             /\ dailySendCounts'[accounts[i].email] = 0
             /\ accounts[i].dailyLimit - dailySendCounts'[accounts[i].email]
                  = accounts[i].dailyLimit
        /\ resetCounts(dailySendCounts') = dailySendCounts' ]_vars

\* a send was counted and the reset zeroed it before the call returned
C8_Witness ==
  \E c \in Callers :
    /\ calls[c].pc = "logSent"
    /\ sentToday(accounts[calls[c].account].email) = 0

(* ---------------- C9 ---------------- *)

\* C9: sendBulk pushes one outcome per request in input order, outcome k with
\* index k, a success exactly when the dispatch of request k succeeded and an
\* error otherwise; when it returns there is an outcome for every request.
C9_BulkOutcomes ==
  /\ Len(bulk.results) = Len(bulk.dispatched)
  /\ Len(bulk.results) <= Len(bulk.emails)
  /\ \A k \in 1..Len(bulk.results) :
       /\ bulk.results[k].index = k - 1
       /\ bulk.results[k].success = bulk.dispatched[k]
       /\ bulk.results[k].success <=> bulk.results[k].error = "none"
  /\ bulk.pc = "done" => Len(bulk.results) = Len(bulk.emails)

\* sendBulk returned [failure, success]
C9_Witness ==
  /\ bulk.pc = "done"
  /\ Len(bulk.results) = 2
  /\ ~bulk.results[1].success
  /\ bulk.results[2].success

(* ---------------- C10 ---------------- *)

\* C10: with delayBetween > 0, sendBulk has waited the delay after every
\* request but the last, whether the request succeeded or failed.
C10_DelayBetweenEveryPair ==
  (bulk.pc = "done" /\ bulk.delayBetween > 0) =>
     bulk.delayed = { k \in 0..(Len(bulk.emails) - 1) : k < Len(bulk.emails) - 1 }

(* ---------------- steps of one call ---------------- *)

\* this step ends the sendEmail call of direct caller c
Terminates(c) == InFlight(c) /\ calls'[c].pc = "idle"

(* ---------------- C11 ---------------- *)

\* C11: every dispatch call that settles has handed a row for its outcome to
\* logEmail: a 'sent' row when it returned a result, a 'failed' row when it
\* threw, a failure of the Postal transport included.
C11_EveryOutcomeLogged ==
  trace.settled =>
     trace.logged = (IF trace.outcome.success THEN "sent" ELSE "failed")

(* ---------------- C12 ---------------- *)

\* C12: a call whose log write failed settles as if the write had succeeded:
\* after a successful transport call it returns the success result, the
\* count and the cursor stay as the send left them; after a failure it throws
\* the error that was caught, not an error of the log write.
C12_LogFailureHarmless ==
  [][ \A c \in Direct :
        (Terminates(c) /\ trace'.logged # "none" /\ ~trace'.stored) =>
           /\ calls[c].pc = "logSent" =>
                LET a == calls[c].account
                IN /\ trace'.outcome.success
                   /\ trace'.outcome.sentBy = a
                   /\ trace'.outcome.remainingToday
                        = accounts[a].dailyLimit - delivered[accounts[a].email]
                   /\ dailySendCounts' = dailySendCounts
                   /\ currentAccountIndex' = currentAccountIndex
           /\ calls[c].pc = "postalLog" => trace'.outcome = postalResult
           /\ calls[c].pc = "logFailed" =>
                /\ ~trace'.outcome.success
                /\ trace'.outcome.error = calls[c].error
                /\ calls[c].error \in {"transport", "AllLimits"} ]_vars

\* a pool send returned its result although its log row was lost
C12_Witness ==
  /\ trace.settled
  /\ trace.logged = "sent"
  /\ ~trace.stored
  /\ trace.outcome.success
  /\ trace.outcome.sentBy \in Pool
  /\ delivered[accounts[trace.outcome.sentBy].email] > 0

(* ---------------- C13 ---------------- *)

\* C13: a call that goes to Postal, because usePostal is set while Postal is
\* enabled or because no account has capacity, selects no account; none of
\* its steps changes a count or the cursor, and it returns sentBy 'postal'
\* with remainingToday 'unlimited'.
C13_RelayLeavesPoolAlone ==
  [][ \A c \in Direct :
        /\ (~InFlight(c) /\ calls'[c].pc = "postalSend") =>
             /\ calls'[c].account = 0
             /\ dailySendCounts' = dailySendCounts
             /\ currentAccountIndex' = currentAccountIndex
        /\ (calls[c].pc \in {"postalSend", "postalLog"} /\ calls'[c] # calls[c]) =>
             /\ calls'[c].account = 0
             /\ dailySendCounts' = dailySendCounts
             /\ currentAccountIndex' = currentAccountIndex
        /\ (calls[c].pc = "postalLog" /\ Terminates(c)) =>
             /\ trace'.outcome.success
             /\ trace'.outcome.sentBy = Postal
             /\ trace'.outcome.remainingToday = Unlimited ]_vars

\* two exhausted accounts, the cursor on the second one, and the last call
\* returned a Postal result
C13_Witness ==
  /\ PoolSize = 2
  /\ AllExhausted
  /\ currentAccountIndex = 1
  /\ Idle
  /\ trace.settled
  /\ trace.outcome.sentBy = Postal
  /\ trace.outcome.remainingToday = Unlimited

(* ---------------- C14 ---------------- *)

\* C14: a dispatch call makes at most one transport call.  When the transport
\* of the selected account rejects, the call goes to its catch block and
\* throws that error, without a call to another account or to Postal; when
\* the Postal transport rejects, the call throws that error.
C14_NoRetry ==
  [][ \A c \in Direct :
        /\ calls'[c].sends <= 1
        /\ (calls[c].pc = "acctSend" /\ calls'[c].pc \notin {"acctSend", "logSent"}) =>
             /\ calls'[c].pc = "logFailed"
             /\ calls'[c].error = "transport"
             /\ calls'[c].sends = 1
        /\ (calls[c].pc = "logFailed" /\ Terminates(c)) =>
             trace'.outcome = thrown(calls[c].error)
        /\ (calls[c].pc = "postalSend" /\ calls'[c].pc \notin {"postalSend", "postalLog"}) =>
             /\ Terminates(c)
             /\ trace'.outcome = thrown("postal") ]_vars

\* a call failed with the transport error of its account while another
\* account had capacity and Postal was enabled
C14_Witness ==
  /\ PoolSize = 2
  /\ \A i \in Pool : remaining(i) > 0
  /\ postalEnabled
  /\ Idle
  /\ trace.settled
  /\ ~trace.outcome.success
  /\ trace.outcome.error = "transport"

(* ---------------- C19 ---------------- *)

\* the sum of the sentToday entries of the first i accounts of the stats
RECURSIVE sumSentToday(_)
sumSentToday(i) == IF i = 0 THEN 0 ELSE sumSentToday(i - 1) + getStats.accounts[i].sentToday

\* the sum of the daily limits of the first i accounts, by kind of address
RECURSIVE sumQuota(_)
sumQuota(i) == IF i = 0 THEN 0 ELSE sumQuota(i - 1) + dailyLimit(accounts[i].email)

C20_ClientSendRoutedAlike ==
  [][ \A c \in Direct, pc \in {"acctSend", "postalSend", "logFailed"},
         a \in 0..MaxEnv, cur \in 0..MaxEnv :
        ( /\ ClientSend(c, 1)
          /\ calls'[c].pc = pc
          /\ calls'[c].account = a
          /\ currentAccountIndex' = cur )
        => /\ ENABLED ( /\ DirectSend(c, FALSE, 1)
                        /\ calls'[c].pc = pc
                        /\ calls'[c].account = a
                        /\ calls'[c].error = (IF pc = "logFailed" THEN "AllLimits" ELSE "none")
                        /\ currentAccountIndex' = cur
                        /\ dailySendCounts' = dailySendCounts )
           /\ calls'[c].error = (IF pc = "logFailed" THEN "AllLimits" ELSE "none")
           /\ dailySendCounts' = dailySendCounts
           /\ calls'[c].from = "client" ]_vars

\* a sendAsClient call is being sent through the second account, the first
\* one being at its limit, under the client's name
C20_Witness ==
  /\ PoolSize = 2
  /\ remaining(1) = 0
  /\ \E c \in Direct :
       /\ calls[c].pc = "acctSend"
       /\ calls[c].account = 2
       /\ mailFrom(c) = "client"

(* ---------------- C15 ---------------- *)

\* wave i of the schedule handed to createCampaign lies after the time at
\* which createCampaign scheduled the waves
FutureWave(i) ==
  /\ i < Len(create.schedule)
  /\ create.schedule[i + 1].sendAt > create.at

\* C15: createCampaign arms one timer for every wave whose sendAt is later
\* than the time of scheduling and none for the others; an armed wave is
\* executed once and not before its sendAt (it has not run while its timer
\* is armed, it has run once when the timer has fired); a wave that is not
\* later than the time of scheduling is never executed.
C15_FutureWavesOnce ==
  \A i \in WaveIndex :
    IF create.pc = "done" /\ FutureWave(i)
    THEN /\ timers[i].state \in {"armed", "fired"}
         /\ timers[i].state = "armed" => waves[i].runs = 0
         /\ timers[i].state = "fired" =>
              /\ waves[i].runs = 1
              /\ waves[i].ranAt >= create.schedule[i + 1].sendAt
    ELSE /\ timers[i].state = "none"
         /\ waves[i].runs = 0
         /\ waves[i].pc = "idle"

(* ---------------- C16 ---------------- *)

\* every wave that was armed has fired and its executeCampaignSend has returned
ArmedWavesFinished ==
  /\ create.pc = "done"
  /\ \E i \in WaveIndex : timers[i].state = "fired"
  /\ \A i \in WaveIndex :
       timers[i].state # "none" => (timers[i].state = "fired" /\ waves[i].pc = "done")

\* C16: once every armed wave of a campaign has finished, the status of the
\* stored campaign is 'completed'.
C16_CompletedAfterWaves ==
  ArmedWavesFinished => dbCampaign.status = "completed"

(* ---------------- C17 ---------------- *)

\* the emails of the first n records of a list of recipients
emailsOf(recipients, n) == [k \in 1..n |-> recipients[k].email]

\* C17: a wave that has read the campaign calls sendEmail for the recipients
\* it read, in their order, each once; it pushes one result per call, for that
\* recipient; when it has finished, sendEmail was called for every recipient
\* and the stored campaign holds, under the index of the wave, a results list
\* with one entry per recipient.
C17_WaveResultsPerRecipient ==
  \A i \in WaveIndex :
    waves[i].found =>
       /\ Len(waves[i].dispatched) <= Len(waves[i].recipients)
       /\ waves[i].dispatched = emailsOf(waves[i].recipients, Len(waves[i].dispatched))
       /\ Len(waves[i].results) <= Len(waves[i].dispatched)
       /\ \A k \in 1..Len(waves[i].results) :
            waves[i].results[k].email = waves[i].recipients[k].email
       /\ waves[i].pc \notin {"send", "update"} =>
            /\ Len(waves[i].dispatched) = Len(waves[i].recipients)
            /\ \E e \in dbCampaign.sent :
                 /\ e.index = i
                 /\ Len(e.results) = Len(waves[i].recipients)
                 /\ e.results = waves[i].results

(* ---------------- C18 ---------------- *)

\* the placeholder of every field the recipient has becomes the field's value,
\* whatever the value; every other piece stays as it is
substituted(template, recipient) ==
  [k \in DOMAIN template |->
     IF template[k].kind = "placeholder" /\ recipient[template[k].str] # Absent
     THEN text(recipient[template[k].str])
     ELSE template[k]]

\* C18: filling in a template for a recipient replaces {{key}} by the value
\* of the recipient's field key when the recipient has that field, an empty value
\* included, and leaves it as it is when the recipient has no such field; the
\* subject and the body are filled in alike.
C18_SameSubstitution ==
  render.pc = "done" =>
     /\ render.subject = substituted(render.template, render.recipient)
     /\ render.html = substituted(render.template, render.recipient)
     /\ render.subject = render.html

(* ---------------- C21 ---------------- *)

\* this step makes the sendEmail call of caller c select an account
Selects(c) == calls[c].pc # "acctSend" /\ calls'[c].pc = "acctSend"

\* the accounts that have capacity left
Eligible == { i \in Pool : remaining(i) > 0 }

\* C21: the step in which a dispatch call selects the account at position i
\* leaves the cursor at (i + 1) mod PoolSize (positions counted from 0), and
\* when at least two accounts have capacity the account selected is not one
\* that another call in flight is being sent through.
C21_SelectAdvancesCursor ==
  [][ \A c \in Callers :
        Selects(c) =>
           /\ currentAccountIndex' = calls'[c].account % PoolSize
           /\ Cardinality(Eligible) >= 2 =>
                \A d \in Callers \ {c} :
                   calls[d].pc = "acctSend" => calls[d].account # calls'[c].account ]_vars

(* ---------------- C22 ---------------- *)

\* C22: with any number of dispatch calls in flight and no reset, every
\* account's sentToday is the number of transport sends through the account
\* that succeeded: no increment is lost and none is made twice.
C22_NoLostIncrement ==
  \A i \in Pool : sentToday(accounts[i].email) = delivered[accounts[i].email]

\* three sends through one account resolved while the three calls were in
\* flight together, and all three are counted
C22_Witness ==
  \E i \in Pool :
    /\ sentToday(accounts[i].email) = 3
    /\ Cardinality({ c \in Callers : calls[c].pc = "logSent" /\ calls[c].account = i }) = 3

(* ---------------- C23 ---------------- *)

\* the sends through accounts[i] that succeeded since the last reset and whose
\* calls were started after it
startedAfterReset(i) ==
  delivered[accounts[i].email] - Cardinality({ l \in trace.late : l.account = i })

\* C23: once the calls that were in flight have finished, every account's
\* sentToday differs by at most 1 from the number of sends through it that
\* succeeded and were started after the last daily reset.
C23_ResetMiscountAtMostOne ==
  Idle =>
     \A i \in Pool :
        /\ sentToday(accounts[i].email) - startedAfterReset(i) <= 1
        /\ startedAfterReset(i) - sentToday(accounts[i].email) <= 1

(* ---------------- C24 ---------------- *)

\* this step is the success of the transport call of caller c's account
PoolSendSucceeds(c) == calls[c].pc = "acctSend" /\ calls'[c].pc = "logSent"

\* this step makes the sendEmail call of caller c fail: its account's
\* transport rejected, no account had capacity and there is no relay, or
\* (for a direct caller) the relay's transport rejected
Fails(c) ==
  \/ calls[c].pc = "acctSend" /\ calls'[c].pc = "logFailed"
  \/ calls[c].pc # "logFailed" /\ calls'[c].pc = "logFailed" /\ calls'[c].error = "AllLimits"
  \/ c \in Direct /\ calls[c].pc = "postalSend" /\ calls'[c].pc = "idle"

\* C24: the counts change only in the step in which an account's transport
\* call succeeded, where the count of that account goes up by 1 and no other
\* count changes, and in the daily reset; a step in which a call fails leaves
\* every count as it was.
C24_CountsChangeOnlyOnSuccess ==
  [][ /\ dailySendCounts' # dailySendCounts =>
           \/ dailySendCounts' = resetCounts(dailySendCounts)
           \/ \E c \in Callers :
                 /\ PoolSendSucceeds(c)
                 /\ dailySendCounts' =
                      [dailySendCounts EXCEPT ![accounts[calls[c].account].email] = @ + 1]
      /\ \A c \in Callers : Fails(c) => dailySendCounts' = dailySendCounts
      /\ \A c \in Callers :
            PoolSendSucceeds(c) =>
               \A i \in Pool :
                  dailySendCounts'[accounts[i].email] =
                     dailySendCounts[accounts[i].email] + (IF i = calls[c].account THEN 1 ELSE 0)
    ]_vars

\* one send through the second account was counted while the send of another
\* call through it was rejected: the counts are 0 and 1
C24_Witness ==
  /\ PoolSize = 2
  /\ sentToday(accounts[1].email) = 0
  /\ sentToday(accounts[2].email) = 1
  /\ \E c, d \in Callers :
       /\ calls[c].pc = "logSent" /\ calls[c].account = 2
       /\ calls[d].pc = "logFailed" /\ calls[d].error = "transport" /\ calls[d].account = 2

(* ---------------- C25 ---------------- *)

\* this step makes sendBulk call sendEmail for a request
BulkDispatches ==
  bulk'.pc = "awaitSend" /\ (bulk.pc # "awaitSend" \/ bulk'.index # bulk.index)

\* C25: sendBulk calls sendEmail for its requests one at a time in input
\* order: for request 0 when it starts and for request k + 1 only when the
\* call for request k has settled, so that an outcome has been pushed for
\* every earlier request and none for this one, and the step is not taken
\* while the earlier call waits for its account's transport; a sendEmail call
\* of sendBulk is in flight exactly while the loop awaits it, not during the
\* delay and not after the return.
C25_BulkSequential ==
  [][ /\ BulkDispatches =>
           /\ bulk'.index = (IF bulk.pc \in {"idle", "done"} THEN 0 ELSE bulk.index + 1)
           /\ bulk'.index < Len(bulk'.emails)
           /\ Len(bulk'.results) = bulk'.index
           /\ \A k \in 1..Len(bulk'.results) : bulk'.results[k].index = k - 1
           /\ calls[BulkCaller].pc # "acctSend"
      /\ (calls'[BulkCaller].pc # "idle") <=> (bulk'.pc = "awaitSend")
      /\ bulk'.pc = "delay" => Len(bulk'.results) = bulk'.index + 1
    ]_vars

\* request 0 failed, request 1 is at its account's transport, and two direct
\* callers are in flight as well
C25_Witness ==
  /\ bulk.pc = "awaitSend"
  /\ bulk.index = 1
  /\ Len(bulk.results) = 1
  /\ ~bulk.results[1].success
  /\ calls[BulkCaller].pc = "acctSend"
  /\ \A c \in Direct : InFlight(c)

(* ---------------- the constructor, from the environment ---------------- *)

\* the addresses the environment may configure: those of Emails and a second
\* gmail.com address
LoadEmails == Emails \cup {[user |-> 3, domain |-> "gmail.com"]}

\* a daily limit the environment sets for an account; 0: none is set
QuotaSettings == {0, 1}

\* the environment: index -> [email, password, dailyLimit], every address at
\* most once.  email and password stand for GMAIL_EMAIL_<i> and
\* GMAIL_APP_PASSWORD_<i>; dailyLimit stands for whatever other variable of
\* the environment would carry a limit for account i
LoadEnvs ==
  { e \in [1..MaxEnv -> [email : LoadEmails \cup {NoEmail}, password : BOOLEAN,
                         dailyLimit : QuotaSettings]] :
      \A i, j \in 1..MaxEnv : (i # j /\ e[i].email # NoEmail) => e[i].email # e[j].email }

\* the fields are assigned (lines 16 to 20), initializeAccounts has not run
LoadInit ==
  /\ \E env \in LoadEnvs, postal \in BOOLEAN :
        processEnv = [on |-> TRUE, constructed |-> FALSE, gmail |-> env, postal |-> postal]
  /\ accounts = <<>>
  /\ currentAccountIndex = 0
  /\ dailySendCounts = <<>>
  /\ postalEnabled = FALSE
  /\ calls = [c \in Callers |-> IdleCall]
  /\ bulk = IdleBulk
  /\ delivered = <<>>
  /\ trace = TraceOff
  /\ campInit
  /\ render = NoRender

\* postalHost && postalApiKey
initializePostal(postal) == postal

\* the rest of the constructor: initializeAccounts and initializePostal
Constructor ==
  /\ processEnv.on
  /\ ~processEnv.constructed
  /\ accounts' = initializeAccounts(processEnv.gmail)
  /\ dailySendCounts' = [e \in AccountEmails(accounts') |-> 0]
  /\ delivered' = [e \in AccountEmails(accounts') |-> 0]
  /\ postalEnabled' = initializePostal(processEnv.postal)
  /\ processEnv' = [processEnv EXCEPT !.constructed = TRUE]
  /\ UNCHANGED <<currentAccountIndex, calls, bulk, trace, clock, create, dbCampaign, timers,
                 waves, render>>

LoadNext == Constructor

LoadSpec == LoadInit /\ [][LoadNext]_vars

(* ---------------- C26 ---------------- *)

\* index i of the environment has both an address and a credential
Configured(i) == processEnv.gmail[i].email # NoEmail /\ processEnv.gmail[i].password

\* the entries of the environment that have both, in index order
configuredEntries == SelectSeq(processEnv.gmail, LAMBDA entry : entry.email # NoEmail /\ entry.password)

\* C26: the pool the constructor builds holds the accounts of exactly the
\* indices of the environment that have both an address and a credential, in
\* index order, also when an earlier index has no address or no credential;
\* the pool is empty only when no index has both.
C26_LoadsEveryConfiguredAccount ==
  (processEnv.on /\ processEnv.constructed) =>
     /\ Len(accounts) = Len(configuredEntries)
     /\ \A k \in 1..Len(accounts) : accounts[k].email = configuredEntries[k].email
     /\ accounts = <<>> => \A i \in 1..MaxEnv : ~Configured(i)

(* ---------------- C27 ---------------- *)

\* the entry of the environment that configures the address
entryOf(email) ==
  processEnv.gmail[CHOOSE i \in 1..MaxEnv : processEnv.gmail[i].email = email]

\* C27: an account of the pool has the daily limit the environment sets for
\* it when it sets one; otherwise the lower limit when its address is a
\* gmail.com address and the higher limit when it is not.
C27_QuotaByClassOrSetting ==
  (processEnv.on /\ processEnv.constructed) =>
     \A k \in 1..Len(accounts) :
        accounts[k].dailyLimit =
           IF entryOf(accounts[k].email).dailyLimit # 0
           THEN entryOf(accounts[k].email).dailyLimit
           ELSE IF endsWithGmail(accounts[k].email) THEN GmailLimit ELSE WorkspaceLimit

(* ---------------- C28 ---------------- *)

\* every account has reached its limit (or gone beyond it)
NoneEligible == \A i \in Pool : remaining(i) <= 0

\* C28: a sendEmail call whose scan finds every account at its limit leaves
\* the cursor where it was, whether the call goes to Postal or fails with the
\* all-limits error; and while every account is at its limit no step other
\* than the success of a transport call that was already in flight moves the
\* cursor.
C28_ExhaustedScanKeepsCursor ==
  [][ /\ \A c \in Callers :
           (NoneEligible /\ Enters(c, FALSE)) =>
              /\ calls'[c].pc \in {"postalSend", "logFailed"}
              /\ calls'[c].account = 0
              /\ currentAccountIndex' = currentAccountIndex
      /\ (NoneEligible /\ ~\E c \in Callers : PoolSendSucceeds(c)) =>
            currentAccountIndex' = currentAccountIndex
    ]_vars

\* two accounts at their limits, the cursor on the second one, and a call
\* that found none failing with the all-limits error
C28_Witness ==
  /\ PoolSize = 2
  /\ NoneEligible
  /\ currentAccountIndex = 1
  /\ ~postalEnabled
  /\ \E c \in Callers : calls[c].pc = "logFailed" /\ calls[c].error = "AllLimits"

(* ---------------- C29 ---------------- *)

\* C29: the cursor is a position of the pool, 0 <= currentAccountIndex <
\* PoolSize, when the pool has accounts, and 0 when it has none, in every
\* state that direct calls, sendBulk and the daily reset can reach in any
\* interleaving; the account a call is being sent through is an account of
\* the pool.
C29_CursorValid ==
  /\ IF PoolSize = 0
     THEN currentAccountIndex = 0
     ELSE 0 <= currentAccountIndex /\ currentAccountIndex < PoolSize
  /\ \A c \in Callers : calls[c].pc = "acctSend" => calls[c].account \in Pool

\* both accounts have sent, the cursor has wrapped around to the first one,
\* and calls of sendBulk and of a direct caller are in flight
C29_Witness ==
  /\ PoolSize = 2
  /\ \A i \in Pool : delivered[accounts[i].email] >= 1
  /\ currentAccountIndex = 0
  /\ InFlight(BulkCaller)
  /\ \E c \in Direct : InFlight(c)

(* ---------------- C30 ---------------- *)

\* C30: when the insert of createCampaign was rejected, the call has thrown,
\* no campaign is stored, no timer is armed or has fired, no wave has run and
\* no sendEmail call was made for the campaign, however much time passes.
C30_RejectedInsertArmsNothing ==
  create.pc = "failed" =>
     /\ ~dbCampaign.exists
     /\ \A i \in WaveIndex :
          /\ timers[i] = NoTimer
          /\ waves[i] = IdleWave
          /\ ~InFlight(WaveCaller(i))
     /\ \A i \in Pool : delivered[accounts[i].email] = 0

\* the insert of a campaign with recipients and a wave in the future was
\* rejected, and the time of the wave has passed
C30_Witness ==
  /\ create.pc = "failed"
  /\ create.recipients # <<>>
  /\ PoolSize > 0
  /\ \E i \in WaveIndex :
       /\ i < Len(create.schedule)
       /\ create.schedule[i + 1].sendAt > create.at
       /\ clock >= create.schedule[i + 1].sendAt

====
